---- MODULE Spec2Model ----
(***************************************************************************)
(* Model of the two CSV fixture generators, generate_shipments_csv.py and  *)
(* generate_vehicles_csv.py.                                               *)
(*                                                                         *)
(* Representation.                                                         *)
(*  - Text is a sequence of lexemes.  A lexeme is one character ("4", ",", *)
(*    " ", "-", ...) or a run of letters and underscores ("Order",         *)
(*    "pallets"), which no rule of the CSV writer tells apart from a       *)
(*    single letter.  "\r\n" is the writer's line terminator.              *)
(*  - A float number of degrees is a fixed-point integer counting          *)
(*    nano-degrees (1e-9 degree), one decimal finer than the 8 decimals    *)
(*    the code rounds to.  Kilometres are counted in metres, the cosine in *)
(*    thousandths.                                                         *)
(*  - A datetime is a record of its fields; a timedelta is a record of     *)
(*    days, seconds, microseconds, as in the datetime module.              *)
(*  - An optional int is <<>> (None) or <<v>>; an exception is named by    *)
(*    its class, NoExc meaning that none was raised.                       *)
(***************************************************************************)
EXTENDS Integers, Sequences, FiniteSets, TLC

None == <<>>

Some(v) == <<v>>

Val(opt) == opt[1]

NoExc == "NoExc"

Abs(x) == IF x < 0 THEN -x ELSE x

\* <<floor(a * b / c), (a * b) % c>> for a >= 0, b >= 0, c > 0, by long
\* division over the decimal digits of a, so that a * b is never formed.
RECURSIVE MulDivMod(_, _, _)
MulDivMod(a, b, c) ==
    IF a = 0 THEN <<0, 0>>
    ELSE LET hi == MulDivMod(a \div 10, b, c)
             t  == 10 * hi[2] + (a % 10) * b
         IN  <<10 * hi[1] + t \div c, t % c>>

\* floor(a * b / c).
MulDiv(a, b, c) == MulDivMod(a, b, c)[1]

----------------------------------------------------------------------------
(* Text                                                                    *)

DigitChar(d) == CASE d = 0 -> "0" [] d = 1 -> "1" [] d = 2 -> "2" [] d = 3 -> "3"
                  [] d = 4 -> "4" [] d = 5 -> "5" [] d = 6 -> "6" [] d = 7 -> "7"
                  [] d = 8 -> "8" [] d = 9 -> "9"

DigitVal(c) == CASE c = "0" -> 0 [] c = "1" -> 1 [] c = "2" -> 2 [] c = "3" -> 3
                 [] c = "4" -> 4 [] c = "5" -> 5 [] c = "6" -> 6 [] c = "7" -> 7
                 [] c = "8" -> 8 [] c = "9" -> 9

\* The decimal digits of n >= 0, most significant first.
RECURSIVE Digits(_)
Digits(n) == IF n < 10 THEN <<DigitChar(n)>>
             ELSE Append(Digits(n \div 10), DigitChar(n % 10))

\* The decimal digits of n >= 0, zero-padded on the left to width w.
RECURSIVE Pad(_, _)
Pad(n, w) == IF w <= 0 THEN <<>>
             ELSE IF w = 1 /\ n >= 10 THEN Digits(n)
             ELSE Append(Pad(n \div 10, w - 1), DigitChar(n % 10))

\* str(n) of an int.
StrInt(n) == IF n < 0 THEN <<"-">> \o Digits(-n) ELSE Digits(n)

\* The number a sequence of digit characters denotes.
RECURSIVE ParseNat(_)
ParseNat(s) == IF s = <<>> THEN 0
               ELSE 10 * ParseNat(SubSeq(s, 1, Len(s) - 1)) + DigitVal(s[Len(s)])

\* s without its trailing "0" lexemes.
RECURSIVE StripZeros(_)
StripZeros(s) == IF s # <<>> /\ s[Len(s)] = "0"
                 THEN StripZeros(SubSeq(s, 1, Len(s) - 1)) ELSE s

\* s without its leading "0" lexemes.
RECURSIVE StripLeadingZeros(_)
StripLeadingZeros(s) == IF s # <<>> /\ s[1] = "0"
                        THEN StripLeadingZeros(Tail(s)) ELSE s

NanoPerDegree == 10 ^ 9

\* repr(x) / f'{x}' of the float x = nano / 1e9: the shortest decimal that
\* reads back as x; exponent notation below 1e-4, as float.__repr__ chooses.
ReprFloat(nano) ==
    LET sign == IF nano < 0 THEN <<"-">> ELSE <<>>
        a    == Abs(nano)
        int  == a \div NanoPerDegree
        frac == StripZeros(Pad(a % NanoPerDegree, 9))
        sig  == StripLeadingZeros(frac)
        exp  == Len(frac) - Len(sig) + 1
    IN  IF a # 0 /\ a < NanoPerDegree \div 10000
        THEN sign \o <<sig[1]>>
                  \o (IF Len(sig) > 1 THEN <<".">> \o Tail(sig) ELSE <<>>)
                  \o <<"e", "-">> \o Pad(exp, 2)
        ELSE sign \o Digits(int) \o <<".">>
                  \o (IF frac = <<>> THEN <<"0">> ELSE frac)

----------------------------------------------------------------------------
(* datetime: the proleptic Gregorian calendar of the datetime module       *)

IsLeap(year) == year % 4 = 0 /\ (year % 100 # 0 \/ year % 400 = 0)

DaysInMonth(year, month) ==
    IF month = 2 THEN (IF IsLeap(year) THEN 29 ELSE 28)
    ELSE IF month \in {4, 6, 9, 11} THEN 30 ELSE 31

\* Days of the year before the first of the month.
RECURSIVE DaysBeforeMonth(_, _)
DaysBeforeMonth(year, month) ==
    IF month <= 1 THEN 0
    ELSE DaysBeforeMonth(year, month - 1) + DaysInMonth(year, month - 1)

\* Days before January 1st of the year.
DaysBeforeYear(year) ==
    LET y == year - 1 IN y * 365 + y \div 4 - y \div 100 + y \div 400

\* date.toordinal(): 0001-01-01 is day 1.
ToOrdinal(year, month, day) ==
    DaysBeforeYear(year) + DaysBeforeMonth(year, month) + day

\* date.fromordinal(n), as _ord2ymd computes it.
FromOrdinal(ordinal) ==
    LET n0   == ordinal - 1
        n400 == n0 \div 146097
        r400 == n0 % 146097
        n100 == r400 \div 36524
        r100 == r400 % 36524
        n4   == r100 \div 1461
        r4   == r100 % 1461
        n1   == r4 \div 365
        n    == r4 % 365
        year == n400 * 400 + 1 + n100 * 100 + n4 * 4 + n1
        est  == (n + 50) \div 32
        over == DaysBeforeMonth(year, est) > n
        month == IF over THEN est - 1 ELSE est
    IN  IF n1 = 4 \/ n100 = 4
        THEN [year |-> year - 1, month |-> 12, day |-> 31]
        ELSE [year |-> year, month |-> month,
              day |-> n - DaysBeforeMonth(year, month) + 1]

\* date.max.toordinal()
MaxOrdinal == ToOrdinal(9999, 12, 31)

DateTime(y, mo, d, h, mi, s, us) ==
    [year |-> y, month |-> mo, day |-> d,
     hour |-> h, minute |-> mi, second |-> s, microsecond |-> us]

\* timedelta(days=, minutes=, microseconds=), normalised as the constructor
\* does: 0 <= seconds < 86400 and 0 <= microseconds < 1000000.
TimeDelta(days, minutes, microseconds) ==
    LET us  == microseconds % 1000000
        sec == minutes * 60 + microseconds \div 1000000
    IN  [days |-> days + sec \div 86400, seconds |-> sec % 86400,
         microseconds |-> us]

\* The seconds since midnight of dt plus delta, before the carry into days.
SumSeconds(dt, delta) ==
    dt.hour * 3600 + dt.minute * 60 + dt.second + delta.seconds
       + (dt.microsecond + delta.microseconds) \div 1000000

\* The ordinal of the day of dt + delta.
SumOrdinal(dt, delta) ==
    ToOrdinal(dt.year, dt.month, dt.day) + delta.days
       + SumSeconds(dt, delta) \div 86400

\* datetime.__add__(timedelta) raises OverflowError out of 0001..9999.
AddOverflows(dt, delta) ==
    ~(0 < SumOrdinal(dt, delta) /\ SumOrdinal(dt, delta) <= MaxOrdinal)

\* datetime.__add__(timedelta), when it does not overflow.
DateTimeAdd(dt, delta) ==
    LET rem  == SumSeconds(dt, delta) % 86400
        date == FromOrdinal(SumOrdinal(dt, delta))
    IN  DateTime(date.year, date.month, date.day,
                 rem \div 3600, (rem % 3600) \div 60, rem % 60,
                 (dt.microsecond + delta.microseconds) % 1000000)

\* dt.replace(hour=) raises ValueError for an hour outside 0..23.
HourInvalid(hour) == hour \notin 0..23

\* Fault: replace(hour=hour) alone, the minute, second and microsecond of
\* now() kept.
ReplaceHourOnly(dt, hour) == [dt EXCEPT !.hour = hour]

\* dt.replace(hour=hour, minute=0, second=0, microsecond=0): the date is
\* kept.
ReplaceHour(dt, hour) ==
    [dt EXCEPT !.hour = hour, !.minute = 0, !.second = 0, !.microsecond = 0]

\* dt.strftime('%Y-%m-%dT%H:%M:%S.000Z'): the fields of dt as they stand
\* (local time), a literal ".000" and a literal "Z".
StrfTime(dt) ==
    Pad(dt.year, 4) \o <<"-">> \o Pad(dt.month, 2) \o <<"-">> \o Pad(dt.day, 2)
      \o <<"T">> \o Pad(dt.hour, 2) \o <<":">> \o Pad(dt.minute, 2)
      \o <<":">> \o Pad(dt.second, 2) \o <<".", "0", "0", "0", "Z">>

----------------------------------------------------------------------------
(* random: the process-global generator.  Its state is a number below      *)
(* RngModulus; every draw is a function of the state and advances it.      *)

RngModulus == 16

RngStates == 0 .. (RngModulus - 1)

\* random.seed(seed): the state is a function of the seed alone.
SeedState(seed) == seed % RngModulus

\* The state after one draw.
RngAdvance(s) == (5 * s + 3) % RngModulus

\* random.uniform(a, b) == a + (b - a) * random(), random() = s / RngModulus
\* in [0, 1).
RandomUniform(s, a, b) == a + MulDiv(b - a, s, RngModulus)

\* random.randint(a, b) raises ValueError for an empty range.
RandIntRaises(a, b) == a > b

\* Fault: a draw that can pass the upper end, b + 1 included.
RandIntPastEnd(s, a, b) == a + (s * (b - a + 2)) \div RngModulus

\* random.randint(a, b): an integer of a..b.
RandInt(s, a, b) == a + (s * (b - a + 1)) \div RngModulus

----------------------------------------------------------------------------
(* generate_shipments_csv.py: the two samplers                             *)

KmPerDegree == 111

\* The number of decimals generate_random_coords rounds to.
RoundDecimals == 8

\* One unit of the last decimal kept, in nano-degrees.
RoundUnit == NanoPerDegree \div (10 ^ RoundDecimals)

\* round(x, 8): the nearest multiple of 1e-8, a tie going to the even one.
Round8(x) ==
    LET q == x \div RoundUnit
        r == x % RoundUnit
    IN  IF 2 * r < RoundUnit THEN q * RoundUnit
        ELSE IF 2 * r > RoundUnit THEN (q + 1) * RoundUnit
        ELSE IF q % 2 = 0 THEN q * RoundUnit ELSE (q + 1) * RoundUnit

\* abs(math.cos(math.radians(lat))) in thousandths, for |lat| < 2.2 degrees
\* (the range of the fixed-point numbers): cos >= 0.9995 up to 1.8119
\* degrees, and below it, down to 0.99926, beyond.
AbsCosMilli(lat) == IF Abs(lat) <= 1811900000 THEN 1000 ELSE 999

\* Fault: the whole side of the square taken as the offset.
LatOffsetFullSide(square_size_m) ==
    MulDiv(NanoPerDegree, square_size_m, KmPerDegree * 1000)

\* lat_offset = (square_size_km / 2) / 111.0, in nano-degrees; the square's
\* side is given in metres.
LatOffset(square_size_m) ==
    MulDiv(NanoPerDegree, square_size_m, 2 * KmPerDegree * 1000)

\* lon_offset = (square_size_km / 2) / (111.0 * abs(cos(radians(center_lat))))
LonOffset(center_lat, square_size_m) ==
    MulDiv(NanoPerDegree, square_size_m, 2 * KmPerDegree * AbsCosMilli(center_lat))

\* The point before rounding: center + random.uniform(-offset, offset) on
\* each axis, latitude drawn first.
SampleCoords(s, center_lat, center_lon, square_size_m) ==
    LET lat_offset == LatOffset(square_size_m)
        lon_offset == LonOffset(center_lat, square_size_m)
        s2         == RngAdvance(s)
    IN  [lat |-> center_lat + RandomUniform(s, -lat_offset, lat_offset),
         lon |-> center_lon + RandomUniform(s2, -lon_offset, lon_offset),
         rng |-> RngAdvance(s2)]

\* generate_random_coords: (round(lat, 8), round(lon, 8)) and the generator's
\* state after the two draws.
generate_random_coords(s, center_lat, center_lon, square_size_m) ==
    LET p == SampleCoords(s, center_lat, center_lon, square_size_m)
    IN  [lat |-> Round8(p.lat), lon |-> Round8(p.lon), rng |-> p.rng]

\* Fault: random.randint(start_hour, end_hour), the end hour included.
ChooseHourInclusiveEnd(s, start_hour, end_hour, fixed_hour) ==
    IF fixed_hour # None THEN Val(fixed_hour)
    ELSE RandInt(s, start_hour, end_hour)

\* The hour of the window: fixed_hour verbatim when given, else
\* random.randint(start_hour, end_hour - 1).
ChooseHour(s, start_hour, end_hour, fixed_hour) ==
    IF fixed_hour # None THEN Val(fixed_hour)
    ELSE RandInt(s, start_hour, end_hour - 1)

\* Fault: the base date is today.
TomorrowIsToday(now) == now

\* tomorrow = datetime.now() + timedelta(days=1)
Tomorrow(now) == DateTimeAdd(now, TimeDelta(1, 0, 0))

\* base_date = tomorrow.replace(hour=random_hour, minute=0, second=0,
\*                              microsecond=0)
BaseDate(now, random_hour) == ReplaceHour(Tomorrow(now), random_hour)

\* Fault: the window always one hour long, as the comment "hour:00 to
\* (hour+1):00" has it.
EndTimeOneHour(base_date, window_duration_minutes) ==
    DateTimeAdd(base_date, TimeDelta(0, 60, 0))

\* end_time = base_date + timedelta(minutes=window_duration_minutes)
EndTime(base_date, window_duration_minutes) ==
    DateTimeAdd(base_date, TimeDelta(0, window_duration_minutes, 0))

\* The exception generate_random_time_window raises, in the order of its
\* statements, or NoExc.
TimeWindowExc(s, now, start_hour, end_hour, window_duration_minutes, fixed_hour) ==
    LET random_hour == ChooseHour(s, start_hour, end_hour, fixed_hour)
    IN  IF fixed_hour = None /\ RandIntRaises(start_hour, end_hour - 1)
        THEN "ValueError"
        ELSE IF AddOverflows(now, TimeDelta(1, 0, 0)) THEN "OverflowError"
        ELSE IF HourInvalid(random_hour) THEN "ValueError"
        ELSE IF AddOverflows(BaseDate(now, random_hour),
                             TimeDelta(0, window_duration_minutes, 0))
        THEN "OverflowError"
        ELSE NoExc

\* generate_random_time_window: [exc, value, rng].  value is the tuple
\* (start_iso, start_iso, end_iso, end_iso) when exc is NoExc.  fixed_minute
\* is accepted and never read.
generate_random_time_window(s, now, start_hour, end_hour, window_duration_minutes, fixed_hour, fixed_minute) ==
    LET random_hour == ChooseHour(s, start_hour, end_hour, fixed_hour)
        base_date   == BaseDate(now, random_hour)
        start_time  == base_date
        end_time    == EndTime(base_date, window_duration_minutes)
        start_iso   == StrfTime(start_time)
        end_iso     == StrfTime(end_time)
        exc         == TimeWindowExc(s, now, start_hour, end_hour,
                                     window_duration_minutes, fixed_hour)
    IN  [exc   |-> exc,
         value |-> IF exc = NoExc
                   THEN <<start_iso, start_iso, end_iso, end_iso>> ELSE <<>>,
         rng   |-> IF fixed_hour # None THEN s ELSE RngAdvance(s)]


----------------------------------------------------------------------------
(* csv.DictWriter with the default (excel) dialect                         *)

Delimiter == ","

QuoteChar == "\""

LineTerminator == "\r\n"

\* QUOTE_MINIMAL: a field is quoted when it holds the delimiter, the quote
\* character or a line-terminator character.
NeedsQuote(field) ==
    \E k \in 1..Len(field) :
        field[k] \in {Delimiter, QuoteChar, "\r", "\n", LineTerminator}

\* The field with every quote character doubled.
RECURSIVE DoubleQuotes(_)
DoubleQuotes(field) ==
    IF field = <<>> THEN <<>>
    ELSE (IF Head(field) = QuoteChar THEN <<QuoteChar, QuoteChar>>
          ELSE <<Head(field)>>) \o DoubleQuotes(Tail(field))

\* Fault: no field is ever quoted (QUOTE_NONE).
QuoteFieldNever(field) == field

QuoteField(field) ==
    IF NeedsQuote(field)
    THEN <<QuoteChar>> \o DoubleQuotes(field) \o <<QuoteChar>>
    ELSE field

\* writer.writerow(fields): the fields joined by the delimiter, then the
\* line terminator.
RECURSIVE JoinFields(_)
JoinFields(fields) ==
    IF fields = <<>> THEN <<>>
    ELSE IF Len(fields) = 1 THEN QuoteField(fields[1])
    ELSE QuoteField(Head(fields)) \o <<Delimiter>> \o JoinFields(Tail(fields))

WriteRow(fields) == JoinFields(fields) \o <<LineTerminator>>

\* DictWriter.writeheader(): the field names as a row.
WriteHeader(fieldnames) ==
    WriteRow([k \in 1..Len(fieldnames) |-> <<fieldnames[k]>>])

SeqRange(seq) == {seq[k] : k \in 1..Len(seq)}

\* DictWriter (extrasaction='raise') raises ValueError for a dict with a key
\* that is no field name.
DictHasExtras(fieldnames, rowdict) ==
    ~(DOMAIN rowdict \subseteq SeqRange(fieldnames))

\* DictWriter._dict_to_list: rowdict.get(key, '') for each field name.
DictToList(fieldnames, rowdict) ==
    [k \in 1..Len(fieldnames) |->
        IF fieldnames[k] \in DOMAIN rowdict THEN rowdict[fieldnames[k]]
        ELSE <<>>]

\* DictWriter.writerows(rows)
RECURSIVE WriteRows(_, _)
WriteRows(fieldnames, rowdicts) ==
    IF rowdicts = <<>> THEN <<>>
    ELSE WriteRow(DictToList(fieldnames, Head(rowdicts)))
            \o WriteRows(fieldnames, Tail(rowdicts))

\* Fault: writeheader() is not called.
CsvTextNoHeader(fieldnames, rowdicts) == WriteRows(fieldnames, rowdicts)

\* What writeheader() and writerows(rows) put in the file.
CsvText(fieldnames, rowdicts) ==
    WriteHeader(fieldnames) \o WriteRows(fieldnames, rowdicts)

\* What is in the file when a write fails after k lines went out.
PartialCsvText(fieldnames, rowdicts, k) ==
    IF k = 0 THEN <<>>
    ELSE CsvText(fieldnames, SubSeq(rowdicts, 1, k - 1))

----------------------------------------------------------------------------
(* generate_shipments_csv.py: the row assembly driver                      *)

ShipmentHeaders ==
    << "label", "penaltyCost", "pickupArrivalWaypoint", "pickupDuration",
       "pickupCost", "pickupStartTime", "pickupSoftStartTime", "pickupEndTime",
       "pickupSoftEndTime", "pickupCostPerHourBeforeSoftStartTime",
       "pickupCostPerHourAfterSoftStartTime",
       "pickupCostPerHourAfterSoftEndTime", "deliveryArrivalWaypoint",
       "deliveryDuration", "deliveryCost", "deliveryStartTime",
       "deliverySoftStartTime", "deliveryEndTime", "deliverySoftEndTime",
       "deliveryCostPerHourBeforeSoftStartTime",
       "deliveryCostPerHourAfterSoftEndTime", "loadDemand1Type",
       "loadDemand1Value", "loadDemand2Type", "loadDemand2Value",
       "loadDemand3Type", "loadDemand3Value", "loadDemand4Type",
       "loadDemand4Value", "allowedVehicleIndices" >>

\* f'{lat}, {lon}'
Waypoint(lat, lon) == ReprFloat(lat) \o <<",", " ">> \o ReprFloat(lon)

\* The dict of shipment i (counted from 0).
ShipmentRow(a, i, delivery_lat, delivery_lon, window, num_pallets) ==
    [ label                 |-> <<"Order", " ", "-", " ">> \o StrInt(i + 1),
      penaltyCost           |-> StrInt(a.penalty_cost),
      pickupArrivalWaypoint |-> Waypoint(a.depot_lat, a.depot_lon),
      pickupDuration        |-> <<"0">>,
      pickupCost            |-> <<>>,
      pickupStartTime       |-> <<>>,
      pickupSoftStartTime   |-> <<>>,
      pickupEndTime         |-> <<>>,
      pickupSoftEndTime     |-> <<>>,
      pickupCostPerHourBeforeSoftStartTime |-> <<>>,
      pickupCostPerHourAfterSoftStartTime  |-> <<>>,
      pickupCostPerHourAfterSoftEndTime    |-> <<>>,
      deliveryArrivalWaypoint |-> Waypoint(delivery_lat, delivery_lon),
      deliveryDuration      |-> StrInt(a.delivery_duration_sec),
      deliveryCost          |-> <<>>,
      deliveryStartTime     |-> window[1],
      deliverySoftStartTime |-> window[2],
      deliveryEndTime       |-> window[3],
      deliverySoftEndTime   |-> window[4],
      deliveryCostPerHourBeforeSoftStartTime |-> StrInt(a.penalty_per_hour),
      deliveryCostPerHourAfterSoftEndTime    |-> StrInt(a.penalty_per_hour),
      loadDemand1Type       |-> <<"pallets">>,
      loadDemand1Value      |-> StrInt(num_pallets),
      loadDemand2Type       |-> <<>>,
      loadDemand2Value      |-> <<>>,
      loadDemand3Type       |-> <<>>,
      loadDemand3Value      |-> <<>>,
      loadDemand4Type       |-> <<>>,
      loadDemand4Value      |-> <<>>,
      allowedVehicleIndices |-> <<>> ]

\* The defaults of generate_random_time_window that generate_shipments_csv
\* leaves in place.
DefaultStartHour == 6

DefaultEndHour == 22

DefaultWindowMinutes == 60

----------------------------------------------------------------------------
(* generate_vehicles_csv.py                                                *)

VehicleHeaders ==
    << "label", "travelMode", "startWaypoint", "endWaypoint",
       "unloadingPolicy", "costPerHour", "costPerTraveledHour",
       "costPerKilometer", "fixedCost", "usedIfRouteIsEmpty",
       "travelDurationMultiple",
       "StartTimeWindowCostPerHourBeforeSoftStartTime",
       "StartTimeWindowCostPerHourAfterSoftEndTime",
       "startTimeWindowStartTime", "startTimeWindowSoftStartTime",
       "startTimeWindowEndTime", "startTimeWindowSoftEndTime",
       "EndTimeWindowCostPerHourBeforeSoftStartTime",
       "EndTimeWindowCostPerHourAfterSoftEndTime", "endTimeWindowStartTime",
       "endTimeWindowSoftStartTime", "endTimeWindowEndTime",
       "endTimeWindowSoftEndTime", "loadLimit1Type", "loadLimit1Value",
       "loadLimit2Type", "loadLimit2Value", "loadLimit3Type",
       "loadLimit3Value", "loadLimit4Type", "loadLimit4Value" >>

\* The dict of vehicle i (counted from 0).
VehicleRow(a, i) ==
    LET depot_waypoint   == Waypoint(a.depot_lat, a.depot_lon)
        use_if_empty_str == IF a.use_if_empty THEN <<"TRUE">> ELSE <<"FALSE">>
    IN
    [ label               |-> <<"Vehicle", " ", "-", " ">> \o StrInt(i + 1),
      travelMode          |-> <<"DRIVING">>,
      startWaypoint       |-> depot_waypoint,
      endWaypoint         |-> depot_waypoint,
      unloadingPolicy     |-> <<"UNLOADING_POLICY_UNSPECIFIED">>,
      costPerHour         |-> <<"0">>,
      costPerTraveledHour |-> <<"0">>,
      costPerKilometer    |-> <<"0">>,
      fixedCost           |-> <<"0">>,
      usedIfRouteIsEmpty  |-> use_if_empty_str,
      travelDurationMultiple |-> <<"1">>,
      StartTimeWindowCostPerHourBeforeSoftStartTime |-> <<>>,
      StartTimeWindowCostPerHourAfterSoftEndTime    |-> <<>>,
      startTimeWindowStartTime     |-> <<>>,
      startTimeWindowSoftStartTime |-> <<>>,
      startTimeWindowEndTime       |-> <<>>,
      startTimeWindowSoftEndTime   |-> <<>>,
      EndTimeWindowCostPerHourBeforeSoftStartTime |-> <<>>,
      EndTimeWindowCostPerHourAfterSoftEndTime    |-> <<>>,
      endTimeWindowStartTime     |-> <<>>,
      endTimeWindowSoftStartTime |-> <<>>,
      endTimeWindowEndTime       |-> <<>>,
      endTimeWindowSoftEndTime   |-> <<>>,
      loadLimit1Type  |-> <<"pallets">>,
      loadLimit1Value |-> StrInt(a.capacity_pallets),
      loadLimit2Type  |-> <<>>,
      loadLimit2Value |-> <<>>,
      loadLimit3Type  |-> <<>>,
      loadLimit3Value |-> <<>>,
      loadLimit4Type  |-> <<>>,
      loadLimit4Value |-> <<>> ]

----------------------------------------------------------------------------
(* The state machine: one invocation of an entry point, and a second one   *)
(* with the same arguments after it.                                       *)

VARIABLES
    prog,         \* the entry point invoked
    args,         \* its arguments
    pc,           \* "start", "rows", "write", "done" or "raised"
    rng,          \* the state of the process-global random generator
    clock,        \* the wall clock, what datetime.now() returns
    ticks,        \* how often the clock was advanced
    i,            \* the loop index
    rows,         \* the list of row dicts
    file,         \* the text of the file at output_path
    exc,          \* the exception that ended the invocation, or NoExc
    result,       \* the value a sampler returned when called on its own
    nowLog,       \* the clock reading of each time-window call, in order
    runNo,        \* 1 for the first invocation, 2 for the second
    firstOutput,  \* the file as the first invocation left it
    opens         \* how often this invocation opened the output file

vars == <<prog, args, pc, rng, clock, ticks, i, rows, file, exc, result,
          nowLog, runNo, firstOutput, opens>>

MaxShipments == 2

MaxVehicles == 2

MaxTicks == 1

\* The file at output_path before the first invocation.
OldFile == <<"old", LineTerminator>>

NoResult == [exc |-> NoExc, value |-> <<>>]

\* One microsecond before midnight on February 28th of a leap year and on
\* the last day of a year, midnight on February 27th of a common year, and a
\* moment in the middle of a day.
Clocks ==
    { DateTime(2024, 2, 28, 23, 59, 59, 999999),
      DateTime(2023, 12, 31, 23, 59, 59, 999999),
      DateTime(2023, 2, 27, 0, 0, 0, 0),
      DateTime(2025, 6, 15, 10, 37, 15, 250000) }

\* (pickup_hour, pickup_minute) as given on the command line.
Pickups ==
    { <<None, 0>>, <<Some(0), 0>>, <<Some(8), 59>>, <<Some(14), 0>>,
      <<Some(14), 30>>, <<Some(24), 30>> }

\* The arguments of generate_shipments_csv; latitudes and longitudes in
\* nano-degrees, the side of the square in metres.
ShipmentArgsOf(nums, seeds, pickups, pallets) ==
    { [ num_shipments |-> n, depot_lat |-> 1527961500, depot_lon |-> -179814700,
        delivery_center_lat |-> 4, delivery_center_lon |-> -1500000000,
        square_size_m |-> 20000, delivery_duration_sec |-> 600,
        penalty_cost |-> 200, penalty_per_hour |-> 1000,
        max_pallets |-> mp, seed |-> sd, pickup_hour |-> p[1],
        pickup_minute |-> p[2] ] :
        n \in nums, sd \in seeds, p \in pickups, mp \in pallets }

ShipmentArgs ==
    ShipmentArgsOf(0..MaxShipments, {None, Some(0), Some(7)}, Pickups,
                   {0, 1, 3})

VehicleArgs ==
    { [ num_vehicles |-> n, depot_lat |-> 1527961500, depot_lon |-> -179814700,
        capacity_pallets |-> cap, use_if_empty |-> u ] :
        n \in 0..MaxVehicles, cap \in {-5, 0, 7, 100}, u \in BOOLEAN }

\* (start_hour, end_hour): the defaults, the whole day, a two-hour range, the
\* last hour alone and an empty range.
HourRanges == { <<6, 22>>, <<0, 24>>, <<6, 8>>, <<23, 24>>, <<6, 6>> }

TimeWindowArgs ==
    { [ start_hour |-> hr[1], end_hour |-> hr[2],
        window_duration_minutes |-> d, fixed_hour |-> fh,
        fixed_minute |-> fm ] :
        hr \in HourRanges, d \in {-90, 0, 60, 90, 1500},
        fh \in {None, Some(-1), Some(0), Some(8), Some(14), Some(23), Some(24)},
        fm \in {0, 30} }

CoordsArgs ==
    { [ center_lat |-> c[1], center_lon |-> c[2], square_size_m |-> sz ] :
        c \in { <<4, 0>>, <<0, 0>>, <<2000000000, -1500000000>>,
                 <<-1234567896, 2000000005>> },
        sz \in {1, 1000, 1300, 20000, 35000} }

\* The state in which an entry point is invoked: the file at output_path
\* is an old one, the generator of the new process is in any state.
Invoked ==
    /\ pc = "start"
    /\ rng \in RngStates
    /\ clock \in Clocks
    /\ ticks = 0
    /\ i = 0
    /\ rows = <<>>
    /\ file = OldFile
    /\ exc = NoExc
    /\ result = NoResult
    /\ nowLog = <<>>
    /\ runNo = 1
    /\ firstOutput = <<>>
    /\ opens = 0

Init ==
    /\ prog \in {"shipments", "vehicles", "time_window", "coords"}
    /\ args \in CASE prog = "shipments"   -> ShipmentArgs
                  [] prog = "vehicles"    -> VehicleArgs
                  [] prog = "time_window" -> TimeWindowArgs
                  [] prog = "coords"      -> CoordsArgs
    /\ Invoked

Running == pc \in {"start", "rows", "write"}

\* Time passes: the clock moves on by a microsecond while an invocation runs
\* or between two invocations.
Tick ==
    /\ ticks < MaxTicks
    /\ ticks' = ticks + 1
    /\ clock' = DateTimeAdd(clock, TimeDelta(0, 0, 1))
    /\ UNCHANGED <<prog, args, pc, rng, i, rows, file, exc, result, nowLog,
                   runNo, firstOutput, opens>>

\* Fault: the output file is opened for writing before the rows are built.
ShipStartOpensFile ==
    /\ prog = "shipments" /\ pc = "start"
    /\ rng' = IF args.seed # None THEN SeedState(Val(args.seed)) ELSE rng
    /\ rows' = <<>>
    /\ i' = 0
    /\ file' = <<>>
    /\ opens' = opens + 1
    /\ pc' = IF args.num_shipments > 0 THEN "rows" ELSE "write"
    /\ UNCHANGED <<prog, args, clock, ticks, exc, result, nowLog, runNo,
                   firstOutput>>

\* generate_shipments_csv up to its loop: random.seed(seed) when a seed is
\* given, the headers, rows = [].
ShipStart ==
    /\ prog = "shipments" /\ pc = "start"
    /\ rng' = IF args.seed # None THEN SeedState(Val(args.seed)) ELSE rng
    /\ rows' = <<>>
    /\ i' = 0
    /\ pc' = IF args.num_shipments > 0 THEN "rows" ELSE "write"
    /\ UNCHANGED <<prog, args, clock, ticks, file, exc, result, nowLog, runNo,
                   firstOutput, opens>>

\* One iteration of the loop of generate_shipments_csv: the coordinates, the
\* time window, the pallets, the row.  An exception of a call leaves the
\* function at once.
ShipRow ==
    /\ prog = "shipments" /\ pc = "rows" /\ i < args.num_shipments
    /\ LET coords == generate_random_coords(rng, args.delivery_center_lat,
                        args.delivery_center_lon, args.square_size_m)
           tw == generate_random_time_window(coords.rng, clock,
                        DefaultStartHour, DefaultEndHour, DefaultWindowMinutes,
                        args.pickup_hour, args.pickup_minute)
           num_pallets == RandInt(tw.rng, 1, args.max_pallets)
       IN  /\ nowLog' = Append(nowLog, clock)
           /\ IF tw.exc # NoExc
              THEN /\ exc' = tw.exc
                   /\ pc' = "raised"
                   /\ rng' = tw.rng
                   /\ UNCHANGED <<rows, i>>
              ELSE IF RandIntRaises(1, args.max_pallets)
              THEN /\ exc' = "ValueError"
                   /\ pc' = "raised"
                   /\ rng' = tw.rng
                   /\ UNCHANGED <<rows, i>>
              ELSE /\ rows' = Append(rows, ShipmentRow(args, i, coords.lat,
                                        coords.lon, tw.value, num_pallets))
                   /\ rng' = RngAdvance(tw.rng)
                   /\ i' = i + 1
                   /\ pc' = IF i + 1 < args.num_shipments THEN "rows"
                            ELSE "write"
                   /\ UNCHANGED exc
    /\ UNCHANGED <<prog, args, clock, ticks, file, result, runNo, firstOutput,
                   opens>>

\* with open(output_path, 'w', newline='') as csvfile: writeheader(),
\* writerows(rows).  open() may fail and leave the file alone; a write may
\* fail after open() has truncated the file and some lines were written.
\* Either OSError leaves the function; nothing catches it.
WriteCsv(fieldnames) ==
    /\ pc = "write"
    /\ opens' = opens + 1
    /\ \/ /\ ~(\E r \in SeqRange(rows) : DictHasExtras(fieldnames, r))
          /\ file' = CsvText(fieldnames, rows)
          /\ pc' = "done"
          /\ UNCHANGED exc
       \/ /\ \E r \in SeqRange(rows) : DictHasExtras(fieldnames, r)
          /\ file' = WriteHeader(fieldnames)
          /\ pc' = "raised"
          /\ exc' = "ValueError"
       \/ /\ UNCHANGED file
          /\ pc' = "raised"
          /\ exc' = "OSError"
       \/ /\ \E k \in 0..Len(rows) :
                file' = PartialCsvText(fieldnames, rows, k)
          /\ pc' = "raised"
          /\ exc' = "OSError"
    /\ UNCHANGED <<prog, args, rng, clock, ticks, i, rows, result, nowLog,
                   runNo, firstOutput>>

ShipWrite == prog = "shipments" /\ WriteCsv(ShipmentHeaders)

\* generate_vehicles_csv up to its loop.
VehStart ==
    /\ prog = "vehicles" /\ pc = "start"
    /\ rows' = <<>>
    /\ i' = 0
    /\ pc' = IF args.num_vehicles > 0 THEN "rows" ELSE "write"
    /\ UNCHANGED <<prog, args, rng, clock, ticks, file, exc, result, nowLog,
                   runNo, firstOutput, opens>>

\* One iteration of the loop of generate_vehicles_csv.
VehRow ==
    /\ prog = "vehicles" /\ pc = "rows" /\ i < args.num_vehicles
    /\ rows' = Append(rows, VehicleRow(args, i))
    /\ i' = i + 1
    /\ pc' = IF i + 1 < args.num_vehicles THEN "rows" ELSE "write"
    /\ UNCHANGED <<prog, args, rng, clock, ticks, file, exc, result, nowLog,
                   runNo, firstOutput, opens>>

VehWrite == prog = "vehicles" /\ WriteCsv(VehicleHeaders)

\* A call of generate_random_time_window on its own.
CallTimeWindow ==
    /\ prog = "time_window" /\ pc = "start"
    /\ LET tw == generate_random_time_window(rng, clock, args.start_hour,
                    args.end_hour, args.window_duration_minutes,
                    args.fixed_hour, args.fixed_minute)
       IN  /\ result' = [exc |-> tw.exc, value |-> tw.value]
           /\ rng' = tw.rng
           /\ exc' = tw.exc
           /\ pc' = IF tw.exc = NoExc THEN "done" ELSE "raised"
    /\ nowLog' = Append(nowLog, clock)
    /\ UNCHANGED <<prog, args, clock, ticks, i, rows, file, runNo,
                   firstOutput, opens>>

\* A call of generate_random_coords on its own.
CallCoords ==
    /\ prog = "coords" /\ pc = "start"
    /\ LET p == generate_random_coords(rng, args.center_lat, args.center_lon,
                                       args.square_size_m)
       IN  /\ result' = [exc |-> NoExc, value |-> <<p.lat, p.lon>>]
           /\ rng' = p.rng
    /\ pc' = "done"
    /\ UNCHANGED <<prog, args, clock, ticks, i, rows, file, exc, nowLog,
                   runNo, firstOutput, opens>>

\* After a first invocation that wrote its file, the generator is invoked a
\* second time, in a new process, with the same arguments: the generator of
\* the new process starts in any state.
Rerun ==
    /\ prog = "shipments"
    /\ pc = "done" /\ runNo = 1
    /\ runNo' = 2
    /\ firstOutput' = file
    /\ pc' = "start"
    /\ rng' \in RngStates
    /\ i' = 0
    /\ rows' = <<>>
    /\ exc' = NoExc
    /\ nowLog' = <<>>
    /\ opens' = 0
    /\ UNCHANGED <<prog, args, clock, ticks, file, result>>

Next ==
    \/ Tick
    \/ ShipStart
    \/ ShipRow
    \/ ShipWrite
    \/ VehStart
    \/ VehRow
    \/ VehWrite
    \/ CallTimeWindow
    \/ CallCoords

Spec == Init /\ [][Next]_vars

\* Two invocations of generate_shipments_csv with the same seed and the same
\* arguments, one after the other.
InitRerun ==
    /\ prog = "shipments"
    /\ args \in ShipmentArgsOf(1..MaxShipments, {Some(0), Some(7)},
                               {<<None, 0>>, <<Some(14), 0>>}, {3})
    /\ Invoked

NextRerun ==
    \/ Tick
    \/ ShipStart
    \/ ShipRow
    \/ ShipWrite
    \/ Rerun

SpecRerun == InitRerun /\ [][NextRerun]_vars

----------------------------------------------------------------------------
(* Reading the output back: what a CSV reader and a timestamp parser see   *)

\* The positions of the text holding lexeme c.
Positions(text, c) == {k \in 1..Len(text) : text[k] = c}

\* The first position of c in the text, 0 when it has none.
IndexOf(text, c) ==
    LET at == Positions(text, c)
    IN  IF at = {} THEN 0 ELSE CHOOSE k \in at : \A j \in at : k <= j

\* The largest member of a non-empty set of numbers.
SetMax(S) == CHOOSE k \in S : \A j \in S : j <= k

\* Position k lies outside a quoted field: an even number of the quote
\* characters, at the positions quotes, precedes it.
OutsideQuotes(quotes, k) == Cardinality({q \in quotes : q < k}) % 2 = 0

\* The positions of the line terminators that end a line.
LineEnds(text) ==
    LET quotes == Positions(text, QuoteChar)
    IN  {k \in Positions(text, LineTerminator) : OutsideQuotes(quotes, k)}

\* The text is a sequence of complete lines.
WholeLines(text) == text = <<>> \/ Len(text) \in LineEnds(text)

NumLines(text) == Cardinality(LineEnds(text))

\* The position where the line ending at position e starts, ends being the
\* positions where lines end.
LineStart(ends, e) ==
    IF {k \in ends : k < e} = {} THEN 1 ELSE 1 + SetMax({k \in ends : k < e})

\* The numbers of comma-delimited fields of the lines of the text, commas
\* inside quoted fields not counted.
FieldCounts(text) ==
    LET quotes == Positions(text, QuoteChar)
        ends   == LineEnds(text)
        commas == {k \in Positions(text, Delimiter) : OutsideQuotes(quotes, k)}
        count(e) == LET from == LineStart(ends, e)
                    IN  1 + Cardinality({k \in commas : from <= k /\ k < e})
    IN  {count(e) : e \in ends}

\* The fields of a timestamp YYYY-MM-DDTHH:MM:SS.000Z.
IsoYear(iso) == ParseNat(SubSeq(iso, 1, 4))

IsoMonth(iso) == ParseNat(SubSeq(iso, 6, 7))

IsoDay(iso) == ParseNat(SubSeq(iso, 9, 10))

IsoHour(iso) == ParseNat(SubSeq(iso, 12, 13))

IsoMinute(iso) == ParseNat(SubSeq(iso, 15, 16))

IsoSecond(iso) == ParseNat(SubSeq(iso, 18, 19))

\* The time of day and what follows it, from the "T" on.
IsoTail(iso) == SubSeq(iso, 11, Len(iso))

\* The day number of the timestamp's calendar date.
IsoOrdinal(iso) == ToOrdinal(IsoYear(iso), IsoMonth(iso), IsoDay(iso))

\* The seconds from the instant of timestamp a to the instant of timestamp b.
SecondsBetween(a, b) ==
    (IsoOrdinal(b) - IsoOrdinal(a)) * 86400
      + (IsoHour(b) - IsoHour(a)) * 3600 + (IsoMinute(b) - IsoMinute(a)) * 60
      + (IsoSecond(b) - IsoSecond(a))

\* The int a decimal numeral denotes.
ParseInt(text) ==
    IF text # <<>> /\ text[1] = "-" THEN -ParseNat(Tail(text))
    ELSE ParseNat(text)

\* float(text) in nano-degrees, for a numeral as repr writes it.
ParseFloat(text) ==
    LET neg  == text[1] = "-"
        u    == IF neg THEN Tail(text) ELSE text
        e    == IndexOf(u, "e")
        mant == IF e = 0 THEN u ELSE SubSeq(u, 1, e - 1)
        dot  == IndexOf(mant, ".")
        ip   == IF dot = 0 THEN mant ELSE SubSeq(mant, 1, dot - 1)
        fp   == IF dot = 0 THEN <<>> ELSE SubSeq(mant, dot + 1, Len(mant))
        expo == IF e = 0 THEN 0 ELSE ParseNat(SubSeq(u, e + 2, Len(u)))
        val  == ParseNat(ip \o fp) * 10 ^ (9 - Len(fp) - expo)
    IN  IF neg THEN -val ELSE val

\* The latitude and the longitude of a waypoint 'lat, lon'.
WaypointLat(wp) == ParseFloat(SubSeq(wp, 1, IndexOf(wp, ",") - 1))

WaypointLon(wp) == ParseFloat(SubSeq(wp, IndexOf(wp, ",") + 2, Len(wp)))

\* The invocation ended and wrote its file.
ShipDone == prog = "shipments" /\ pc = "done"

VehDone == prog = "vehicles" /\ pc = "done"

TimeWindowReturned == prog = "time_window" /\ pc = "done"

CoordsReturned == prog = "coords" /\ pc = "done"

----------------------------------------------------------------------------
(* The claims                                                              *)

\* C1: with a fixed seed and identical arguments, two invocations of
\* generate_shipments_csv write byte-identical files, whatever the clock
\* reads during each of them.
C1_Deterministic ==
    (prog = "shipments" /\ runNo = 2 /\ pc = "done") => file = firstOutput

\* C2: every tuple generate_random_time_window returns has softStartTime =
\* startTime, softEndTime = endTime, and the instant of endTime exactly
\* window_duration_minutes minutes after the instant of startTime, also
\* across midnight, the end of a month and the end of a year.
C2_WindowExact ==
    TimeWindowReturned =>
        /\ Len(result.value) = 4
        /\ result.value[2] = result.value[1]
        /\ result.value[4] = result.value[3]
        /\ SecondsBetween(result.value[1], result.value[3])
              = args.window_duration_minutes * 60

\* A window that starts in one month and ends in the next.
C2_Witness ==
    /\ TimeWindowReturned
    /\ args.window_duration_minutes > 0
    /\ IsoMonth(result.value[3]) # IsoMonth(result.value[1])

T14 == <<"T", "1", "4", ":", "0", "0", ":", "0", "0", ".", "0", "0", "0", "Z">>

T15 == <<"T", "1", "5", ":", "0", "0", ":", "0", "0", ".", "0", "0", "0", "Z">>

\* The start of a window is at hour h, minute 00, second 00.
StartsAtHour(start_iso, h) ==
    IsoHour(start_iso) = h /\ IsoMinute(start_iso) = 0 /\ IsoSecond(start_iso) = 0

ShipmentFileShape(n) ==
    /\ WholeLines(file)
    /\ NumLines(file) = args.num_shipments + 1
    /\ FieldCounts(file) = {n}

\* C4 as stated: num_shipments + 1 lines, 29 fields in the header and in
\* every row.
C4_Original == ShipDone => ShipmentFileShape(29)

\* C4 amended: the file has num_shipments + 1 lines, and the header and
\* every row have exactly 30 comma-delimited fields, commas inside the
\* quoted waypoint fields not counted.
C4_ThirtyFields == ShipDone => ShipmentFileShape(30)

C4_Witness == ShipDone /\ args.num_shipments = 2 /\ Len(rows) = 2

\* The file of a finished vehicles run: a header of n columns, then one
\* line for each vehicle with a value for each of the n columns, from dicts
\* whose keys are the header's names and no others.
VehicleFileShape(n) ==
    /\ Len(VehicleHeaders) = n
    /\ Cardinality(SeqRange(VehicleHeaders)) = n
    /\ WholeLines(file)
    /\ NumLines(file) = args.num_vehicles + 1
    /\ FieldCounts(file) = {n}
    /\ Len(rows) = args.num_vehicles
    /\ \A k \in 1..Len(rows) : DOMAIN rows[k] = SeqRange(VehicleHeaders)

\* C5 as stated: a header of 30 columns.
C5_Original == VehDone => VehicleFileShape(30)

\* C5 amended: the file has a fixed header of exactly 31 columns followed by
\* exactly num_vehicles rows, each row with one value for each header column
\* and no other keys.
C5_ThirtyOneColumns == VehDone => VehicleFileShape(31)

C5_Witness == VehDone /\ args.num_vehicles = 2 /\ NumLines(file) = 3

\* (square_size_km / 2) / 111, in nano-degrees.
HalfSideLat(square_size_m) == MulDiv(NanoPerDegree, square_size_m, 2 * 111 * 1000)

\* (square_size_km / 2) / (111 * cos(center_lat)), in nano-degrees.
HalfSideLon(center_lat, square_size_m) ==
    MulDiv(NanoPerDegree, square_size_m, 2 * 111 * AbsCosMilli(center_lat))

\* The point lies in the square around the centre, widened by tol on
\* every side.
InSquare(lat, lon, center_lat, center_lon, square_size_m, tol) ==
    /\ Abs(lat - center_lat) <= HalfSideLat(square_size_m) + tol
    /\ Abs(lon - center_lon) <= HalfSideLon(center_lat, square_size_m) + tol

\* Every point returned, and the delivery waypoint of every shipment row,
\* is in the square widened by tol.
AllInSquare(tol) ==
    /\ CoordsReturned =>
          InSquare(result.value[1], result.value[2], args.center_lat,
                   args.center_lon, args.square_size_m, tol)
    /\ prog = "shipments" =>
          \A k \in 1..Len(rows) :
             InSquare(WaypointLat(rows[k].deliveryArrivalWaypoint),
                      WaypointLon(rows[k].deliveryArrivalWaypoint),
                      args.delivery_center_lat, args.delivery_center_lon,
                      args.square_size_m, tol)

\* C6 as stated: the rounded point is within center_lat +/-
\* (square_size_km/2)/111 and center_lon +/- (square_size_km/2)/(111 *
\* cos(center_lat)).
C6_Original == AllInSquare(0)

\* C6 amended: the rounded point is within those bounds widened by half a
\* unit of the 8th decimal place (0.000000005 degree), the most that the
\* rounding can move the sampled point.
C6_WithinRounding == AllInSquare(RoundUnit \div 2)

\* A returned latitude that the rounding has moved below the square.
C6_Witness ==
    /\ CoordsReturned
    /\ result.value[1] < args.center_lat - HalfSideLat(args.square_size_m)

\* C7: in every shipment row loadDemand1Type is 'pallets' and
\* loadDemand1Value is an integer p with 1 <= p <= max_pallets; in every
\* vehicle row loadLimit1Value is the capacity_pallets argument.
C7_Loads ==
    /\ prog = "shipments" =>
          \A k \in 1..Len(rows) :
             /\ rows[k].loadDemand1Type = <<"pallets">>
             /\ ParseInt(rows[k].loadDemand1Value) \in 1..args.max_pallets
             /\ StrInt(ParseInt(rows[k].loadDemand1Value))
                   = rows[k].loadDemand1Value
    /\ prog = "vehicles" =>
          \A k \in 1..Len(rows) :
             ParseInt(rows[k].loadLimit1Value) = args.capacity_pallets

\* A finished run with a shipment of max_pallets pallets and one of fewer.
C7_Witness ==
    /\ ShipDone
    /\ \E k \in 1..Len(rows) :
          ParseInt(rows[k].loadDemand1Value) = args.max_pallets
    /\ \E k \in 1..Len(rows) :
          ParseInt(rows[k].loadDemand1Value) < args.max_pallets

\* C8: without a fixed hour the window starts at an hour h with start_hour
\* <= h < end_hour; in generate_shipments_csv, with the defaults 6 and 22,
\* every record's delivery start hour is in 6..21, at minute 00, second 00.
C8_RandomHour ==
    /\ (TimeWindowReturned /\ args.fixed_hour = None) =>
          /\ args.start_hour <= IsoHour(result.value[1])
          /\ IsoHour(result.value[1]) < args.end_hour
          /\ IsoMinute(result.value[1]) = 0
          /\ IsoSecond(result.value[1]) = 0
    /\ (prog = "shipments" /\ args.pickup_hour = None) =>
          \A k \in 1..Len(rows) :
             /\ IsoHour(rows[k].deliveryStartTime) \in 6..21
             /\ IsoMinute(rows[k].deliveryStartTime) = 0
             /\ IsoSecond(rows[k].deliveryStartTime) = 0

\* A window drawn at the last hour before end_hour.
C8_Witness ==
    /\ TimeWindowReturned /\ args.fixed_hour = None
    /\ args.start_hour < args.end_hour - 1
    /\ IsoHour(result.value[1]) = args.end_hour - 1

\* The window generated when the clock read now: its start is on the
\* calendar day after now's, a valid date; its end is on a later day than
\* its start only if hour * 60 + window_duration_minutes >= 1440.
StartsTomorrow(now, start_iso, end_iso, window_duration_minutes) ==
    /\ IsoMonth(start_iso) \in 1..12
    /\ IsoDay(start_iso) \in 1..DaysInMonth(IsoYear(start_iso), IsoMonth(start_iso))
    /\ IsoOrdinal(start_iso) = ToOrdinal(now.year, now.month, now.day) + 1
    /\ IsoOrdinal(end_iso) > IsoOrdinal(start_iso) =>
          IsoHour(start_iso) * 60 + window_duration_minutes >= 1440

\* C9: the calendar date of every startTime is the local date at the moment
\* the window is generated plus one day, for every hour 0..23; only endTime
\* may fall on a later date, and only when hour * 60 +
\* window_duration_minutes >= 1440.
C9_Tomorrow ==
    /\ TimeWindowReturned =>
          StartsTomorrow(nowLog[1], result.value[1], result.value[3],
                         args.window_duration_minutes)
    /\ prog = "shipments" =>
          \A k \in 1..Len(rows) :
             StartsTomorrow(nowLog[k], rows[k].deliveryStartTime,
                            rows[k].deliveryEndTime, DefaultWindowMinutes)

\* A window generated on December 31st: it starts on January 1st at 23:00
\* and ends on January 2nd.
C9_Witness ==
    /\ TimeWindowReturned
    /\ nowLog[1].month = 12 /\ nowLog[1].day = 31
    /\ IsoMonth(result.value[1]) = 1 /\ IsoDay(result.value[1]) = 1
    /\ IsoHour(result.value[1]) = 23
    /\ IsoDay(result.value[3]) = 2

\* A step of a generator.
GeneratorStep ==
    ShipStart \/ ShipRow \/ ShipWrite \/ VehStart \/ VehRow \/ VehWrite

\* The number of rows asked for.
NumRequested ==
    IF prog = "shipments" THEN args.num_shipments ELSE args.num_vehicles

\* C10: in both generators a failure ends the invocation and nothing is
\* retried; the output file is opened only after all rows are built, and at
\* most once; when row generation raises (pickup_hour outside 0..23,
\* max_pallets < 1) the file at output_path is as it was; when opening or
\* writing fails, the OSError ends the invocation after that one attempt.
C10_FailuresFatal ==
    prog \in {"shipments", "vehicles"} =>
        /\ opens <= 1
        /\ opens = 1 => (Len(rows) = NumRequested /\ pc \in {"done", "raised"})
        /\ exc \in {"ValueError", "OverflowError"} =>
              (pc = "raised" /\ opens = 0 /\ file = OldFile)
        /\ exc = "OSError" => (pc = "raised" /\ opens = 1)
        /\ pc = "raised" => exc # NoExc
        /\ pc = "done" => (exc = NoExc /\ opens = 1)
        /\ (/\ prog = "shipments" /\ ~Running /\ args.num_shipments >= 1
            /\ \/ args.max_pallets < 1
               \/ (args.pickup_hour # None /\ Val(args.pickup_hour) \notin 0..23))
              => (pc = "raised" /\ exc = "ValueError" /\ file = OldFile)
        /\ ~Running => ~ENABLED GeneratorStep

\* A shipments run that ended in row generation, at the invalid hour 24.
C10_Witness ==
    /\ prog = "shipments" /\ pc = "raised"
    /\ args.pickup_hour = Some(24)
    /\ exc = "ValueError" /\ opens = 0 /\ file = OldFile

====
